---- MODULE Spec2Model ----
(***************************************************************************)
(* Component registration of pysmartnode                                   *)
(* (src/pysmartnode/utils/registerComponents.py).                          *)
(*                                                                         *)
(* registerComponentsAsync(data, _log) walks data["_order"] and calls      *)
(* _registerComponents once per entry; _registerComponents validates the   *)
(* descriptor, imports the module, resolves the constructor arguments      *)
(* against config.COMPONENTS, builds the object, runs the init hook,       *)
(* schedules the recurring hook and stores the object in COMPONENTS.       *)
(*                                                                         *)
(* The state is the configuration (data, order), the registry COMPONENTS,  *)
(* the driver's position (mode, pc, i), the locals res/obj/err of the      *)
(* running _registerComponents call, the uncaught exception (exc), and     *)
(* what the collaborators have been handed: the log, the calls made into   *)
(* imported modules, the tasks given to the event loop and the values      *)
(* returned by _registerComponents.                                        *)
(***************************************************************************)
EXTENDS Integers, Sequences, FiniteSets, TLC

\* Longest order list explored.
MaxOrder == 3

\* Component names of the configuration.
Names == {"A", "B", "C"}

(***************************************************************************)
(* Python values that occur as arguments and as registry entries.  All     *)
(* share one record shape so that any two can be compared.                 *)
(***************************************************************************)
Str(s) == [t |-> "str", s |-> s, n |-> 0]
Num(k) == [t |-> "int", s |-> "", n |-> k]
None == [t |-> "none", s |-> "", n |-> 0]
\* The object built for order entry `at` from the descriptor called `name`.
Inst(name, at) == [t |-> "inst", s |-> name, n |-> at]
\* The coroutine object a call of the asynchronous factory of `name` returns,
\* before it is awaited.
Pending(name, at) == [t |-> "coro", s |-> name, n |-> at]

(***************************************************************************)
(* constructor_args / init_args of a descriptor: a list, a dict (its       *)
(* values in key order), some other value, or no such field.               *)
(***************************************************************************)
ListArgs == [kind |-> "list", vals |-> <<Str("A"), Str("C"), Num(5)>>]
DictArgs == [kind |-> "dict", vals |-> <<Str("A"), Str("rom")>>]
OtherArgs == [kind |-> "other", vals |-> <<Str("A")>>]
NoArgs == [kind |-> "absent", vals |-> <<>>]

(***************************************************************************)
(* A descriptor together with the behaviour of the module it names.        *)
(*   present        the name is a key of data                              *)
(*   package        "absent" | "relative" (starts with ".") | "absolute"   *)
(*   hasComponent   the "component" field is there                         *)
(*   importOk       __import__ returns a module                            *)
(*   hasSymbol      the module has the attribute named by "component"      *)
(*   symbol         "class" (called) | "async" (a generator function,      *)
(*                  called and awaited)                                    *)
(*   cargs, iargs   constructor_args, init_args                            *)
(*   build          the call yields an object "obj", None "none", or       *)
(*                  raises "raise"                                         *)
(*   init           init_function is "absent" | "null" | "declared"        *)
(*   initExists     the object has that attribute                          *)
(*   initKind       "sync" plain method | "coro" method returning a        *)
(*                  coroutine | "asyncfn" attribute whose type is that of  *)
(*                  a generator function                                   *)
(*   initResult     the hook ends "ok" or by "raise"                       *)
(*   regular        call_function_regularly "absent"|"null"|"declared"     *)
(*   regularExists  the object has that attribute                          *)
(***************************************************************************)
Plain ==
    [present |-> TRUE, package |-> "relative", hasComponent |-> TRUE,
     importOk |-> TRUE, hasSymbol |-> TRUE, symbol |-> "class",
     cargs |-> ListArgs, build |-> "obj",
     init |-> "absent", iargs |-> NoArgs, initExists |-> FALSE,
     initKind |-> "sync", initResult |-> "ok",
     regular |-> "absent", regularExists |-> FALSE]

WithInit(kind, result) ==
    [Plain EXCEPT !.init = "declared", !.initExists = TRUE, !.iargs = ListArgs,
                  !.initKind = kind, !.initResult = result]

KindsA ==
    { Plain,
      [Plain EXCEPT !.symbol = "async", !.package = "absolute"],
      [Plain EXCEPT !.present = FALSE] }

KindsB ==
    { Plain,
      [Plain EXCEPT !.present = FALSE],
      [Plain EXCEPT !.package = "absent"],
      [Plain EXCEPT !.hasComponent = FALSE],
      [Plain EXCEPT !.importOk = FALSE],
      [Plain EXCEPT !.hasSymbol = FALSE],
      [Plain EXCEPT !.build = "raise"],
      [Plain EXCEPT !.build = "none"],
      [Plain EXCEPT !.build = "none", !.init = "declared", !.regular = "declared"],
      [Plain EXCEPT !.symbol = "async", !.cargs = DictArgs],
      [Plain EXCEPT !.symbol = "async", !.build = "raise"],
      [Plain EXCEPT !.symbol = "async", !.build = "none"],
      [Plain EXCEPT !.cargs = OtherArgs],
      [Plain EXCEPT !.cargs = NoArgs, !.init = "null"],
      [Plain EXCEPT !.init = "declared", !.iargs = DictArgs],
      [Plain EXCEPT !.init = "declared", !.regular = "declared",
                    !.regularExists = TRUE],
      WithInit("sync", "ok"),
      WithInit("sync", "raise"),
      WithInit("coro", "ok"),
      WithInit("coro", "raise"),
      WithInit("asyncfn", "ok"),
      WithInit("asyncfn", "raise"),
      [Plain EXCEPT !.regular = "declared"],
      [Plain EXCEPT !.regular = "null", !.init = "null"],
      [WithInit("sync", "ok") EXCEPT !.regular = "declared",
                                     !.regularExists = TRUE],
      [WithInit("coro", "ok") EXCEPT !.regular = "declared",
                                     !.regularExists = TRUE] }

KindsC ==
    { [Plain EXCEPT !.regular = "declared", !.regularExists = TRUE],
      [Plain EXCEPT !.build = "none"] }

Configs ==
    { [n \in Names |-> IF n = "A" THEN a ELSE IF n = "B" THEN b ELSE c] :
        a \in KindsA, b \in KindsB, c \in KindsC }

Orders == UNION { [1..k -> Names] : k \in 1..MaxOrder }

VARIABLES
    data,        \* the component dict, as the code has rewritten it so far
    config,      \* the component dict as it was read (never changed)
    order,       \* data["_order"]
    mode,        \* "all": registerComponentsAsync(data); "direct": _registerComponents(data)
    COMPONENTS,  \* config.COMPONENTS, a function from registered names to objects
    pc,          \* where the driver task stands
    i,           \* index into order of the entry being processed
    res, obj, err,  \* locals of the running _registerComponents call
    exc,         \* the exception that left the driver, "" if none
    log,         \* reports handed to _log, in order
    calls,       \* calls made into component modules, in order
    tasks,       \* coroutines handed to loop.create_task
    returned,    \* values returned by the _registerComponents calls so far
    platform,    \* sys.platform
    yields,      \* gc.collect() and sleep_ms() steps of registerComponentsAsync, in order
    ran,         \* first executions of the recurring tasks, with what they found
    other        \* the locals of a second driver task while it is not running

vars == <<data, config, order, mode, COMPONENTS, pc, i, res, obj, err, exc,
          log, calls, tasks, returned, platform, yields, ran, other>>

Platforms == {"esp8266", "esp32"}

SleepMsEsp8266 == 750

SleepMsOther == 200

SleepMs_flat(p) == SleepMsOther

\* `750 if platform == "esp8266" else 200`
SleepMs(p) == IF p = "esp8266" THEN SleepMsEsp8266 ELSE SleepMsOther

InitialRes_true == TRUE

\* `res = False` at the head of _registerComponents
InitialRes == FALSE

\* The locals of a driver task: its order list, how it was started, where it
\* stands, and the locals of its running _registerComponents call.
Driver(o, m, p, k, r, ob, er, ex) ==
    [order |-> o, mode |-> m, pc |-> p, i |-> k, res |-> r, obj |-> ob,
     err |-> er, exc |-> ex]

\* A driver task that has not run yet.
Fresh(o, m) ==
    Driver(o, m, IF m = "all" THEN "loop" ELSE "iter", 1, InitialRes, None,
           FALSE, "")

\* There is no second driver task.
NoDriver == Driver(<<>>, "direct", "done", 1, InitialRes, None, FALSE, "")

\* The state in which a driver task is created, on one of the platforms ps.
Start(ps) ==
    /\ data \in Configs
    /\ config = data
    /\ order \in Orders
    /\ mode \in {"all", "direct"}
    /\ COMPONENTS = [n \in {} |-> None]
    /\ pc = IF mode = "all" THEN "loop" ELSE "iter"
    /\ i = 1
    /\ res = InitialRes
    /\ obj = None
    /\ err = FALSE
    /\ exc = ""
    /\ log = <<>>
    /\ calls = <<>>
    /\ tasks = <<>>
    /\ returned = <<>>
    /\ platform \in ps
    /\ yields = <<>>
    /\ ran = <<>>
    /\ other = NoDriver

Init == Start({"esp8266"})

cur == order[i]
d == data[cur]

LogTo_anon(l, sev, msg, comp) ==
    Append(l, [sev |-> sev, msg |-> msg, comp |-> "", at |-> i])

\* One report to the logging collaborator; comp is the component name (or the
\* package/symbol the message names instead), at the order entry being processed.
LogTo(l, sev, msg, comp) ==
    Append(l, [sev |-> sev, msg |-> msg, comp |-> comp, at |-> i])

Log(sev, msg, comp) == LogTo(log, sev, msg, comp)

(***************************************************************************)
(* The argument resolver.                                                  *)
(***************************************************************************)
Resolve_configured(v, C) ==
    IF v.t = "str" /\ v.s \in Names THEN Inst(v.s, 0) ELSE v

Resolve_never(v, C) == v

\* The replacement rule of _getKwargs/_getArgs for one value.
Resolve(v, C) ==
    IF v.t = "str" /\ v.s \in DOMAIN C THEN C[v.s] ELSE v

getKwargs(kwargs, C) ==
    IF kwargs.kind # "dict" THEN <<>>
    ELSE [k \in DOMAIN kwargs.vals |-> Resolve(kwargs.vals[k], C)]

getArgs(args, C) ==
    IF args.kind # "list" THEN <<>>
    ELSE [k \in DOMAIN args.vals |-> Resolve(args.vals[k], C)]

Rewritten_copy(c, C) == c

\* The container after the call: lists and dicts are rewritten in place.
Rewritten(c, C) ==
    IF c.kind \in {"list", "dict"}
    THEN [c EXCEPT !.vals = [k \in DOMAIN c.vals |-> Resolve(c.vals[k], C)]]
    ELSE c

checkArgs_packageOnly(desc) == desc.package # "absent"

checkArgs(desc) == desc.package # "absent" /\ desc.hasComponent

checkPackage(desc) ==
    IF desc.package = "relative" THEN [desc EXCEPT !.package = "absolute"] ELSE desc

IsDuplicate_off(name) == FALSE

\* `componentname in COMPONENTS`
IsDuplicate(name) == name \in DOMAIN COMPONENTS

Put_skip(C, name, o) == C

\* COMPONENTS[componentname] = obj
Put(C, name, o) ==
    [n \in DOMAIN C \cup {name} |-> IF n = name THEN o ELSE C[n]]

Call(op, args, kwargs) ==
    [op |-> op, name |-> cur, at |-> i, args |-> args, kwargs |-> kwargs,
     reg |-> DOMAIN COMPONENTS]

(***************************************************************************)
(* registerComponentsAsync: the loop over data["_order"].                  *)
(***************************************************************************)
\* The loop is exhausted: the coroutine returns.
Finish ==
    /\ mode = "all" /\ pc = "loop" /\ i > Len(order)
    /\ pc' = "done"
    /\ UNCHANGED <<data, config, order, mode, COMPONENTS, i, res, obj, err, exc,
                   log, calls, tasks, returned,
                   platform, yields,
                   ran,
                   other>>

\* tmp[component] = data[component] for a name that is no key of data.
LookupRaises ==
    /\ mode = "all" /\ pc = "loop" /\ i <= Len(order)
    /\ ~d.present
    /\ pc' = "raised"
    /\ exc' = "KeyError"
    /\ UNCHANGED <<data, config, order, mode, COMPONENTS, i, res, obj, err,
                   log, calls, tasks, returned,
                   platform, yields,
                   ran,
                   other>>

\* await _registerComponents(tmp, _log): the call starts with res = False.
CallRegister ==
    /\ mode = "all" /\ pc = "loop" /\ i <= Len(order)
    /\ d.present
    /\ pc' = "iter"
    /\ res' = InitialRes
    /\ UNCHANGED <<data, config, order, mode, COMPONENTS, i, obj, err, exc,
                   log, calls, tasks, returned,
                   platform, yields,
                   ran,
                   other>>

Yield(op, ms) == [op |-> op, at |-> i, ms |-> ms]

\* del tmp; gc.collect(); await asyncio.sleep_ms(...): the driver is suspended
\* in the sleep.
Pause ==
    /\ mode = "all" /\ pc = "pause"
    /\ yields' = yields \o <<Yield("gc", 0), Yield("sleep", SleepMs(platform))>>
    /\ pc' = "sleeping"
    /\ UNCHANGED <<data, config, order, mode, COMPONENTS, i, res, obj, err, exc,
                   log, calls, tasks, returned, platform,
                   ran,
                   other>>

\* The sleep is over: gc.collect(); next entry of data["_order"].
Wake ==
    /\ pc = "sleeping"
    /\ yields' = Append(yields, Yield("gc", 0))
    /\ i' = i + 1
    /\ pc' = "loop"
    /\ UNCHANGED <<data, config, order, mode, COMPONENTS, res, obj, err, exc,
                   log, calls, tasks, returned, platform,
                   ran,
                   other>>

(***************************************************************************)
(* _registerComponents: one pass of the loop over order.                   *)
(***************************************************************************)
\* order[i] not in data
MissingDescriptor ==
    /\ pc = "iter" /\ ~d.present
    /\ log' = Log("error", "not in component dict", cur)
    /\ pc' = "endIter"
    /\ UNCHANGED <<data, config, order, mode, COMPONENTS, i, res, obj, err, exc,
                   calls, tasks, returned,
                   platform, yields,
                   ran,
                   other>>

Duplicate_asError ==
    /\ pc = "iter" /\ d.present
    /\ IsDuplicate(cur)
    /\ log' = Log("error", "already added", cur)
    /\ pc' = "endIter"
    /\ UNCHANGED <<data, config, order, mode, COMPONENTS, i, res, obj, err, exc,
                   calls, tasks, returned,
                   platform, yields,
                   ran,
                   other>>

\* componentname in COMPONENTS
Duplicate ==
    /\ pc = "iter" /\ d.present
    /\ IsDuplicate(cur)
    /\ log' = Log("critical", "already added", cur)
    /\ pc' = "endIter"
    /\ UNCHANGED <<data, config, order, mode, COMPONENTS, i, res, obj, err, exc,
                   calls, tasks, returned,
                   platform, yields,
                   ran,
                   other>>

\* _checkArgs fails: "package" or "component" is missing.
MissingField ==
    /\ pc = "iter" /\ d.present /\ ~IsDuplicate(cur)
    /\ ~checkArgs(d)
    /\ log' = Log("error", "Missing required value", "")
    /\ pc' = "endIter"
    /\ UNCHANGED <<data, config, order, mode, COMPONENTS, i, res, obj, err, exc,
                   calls, tasks, returned,
                   platform, yields,
                   ran,
                   other>>

Importable == pc = "iter" /\ d.present /\ ~IsDuplicate(cur) /\ checkArgs(d)

ImportOk_always(desc) == TRUE

\* __import__(component["package"], ...) returns a module (tmp is not None).
ImportOk(desc) == desc.importOk

SymbolFound_always(desc) == TRUE

\* hasattr(tmp, component["component"])
SymbolFound(desc) == desc.hasSymbol

\* _checkPackage rewrites the descriptor, then __import__ is called.
Imported ==
    /\ data' = [data EXCEPT ![cur] = checkPackage(d)]
    /\ calls' = Append(calls, Call("import", <<>>, <<>>))

\* __import__ raises.
ImportFailed ==
    /\ Importable
    /\ ~ImportOk(d)
    /\ Imported
    /\ err' = FALSE
    /\ log' = Log("critical", "Error importing package", "")
    /\ pc' = "endIter"
    /\ UNCHANGED <<config, order, mode, COMPONENTS, i, res, obj, exc,
                   tasks, returned,
                   platform, yields,
                   ran,
                   other>>

\* The module has no attribute named by "component".
SymbolMissing ==
    /\ Importable
    /\ ImportOk(d) /\ ~SymbolFound(d)
    /\ Imported
    /\ err' = FALSE
    /\ log' = Log("critical", "error during import of module", "")
    /\ res' = FALSE
    /\ pc' = "endIter"
    /\ UNCHANGED <<config, order, mode, COMPONENTS, i, obj, exc, tasks, returned,
                   platform, yields,
                   ran,
                   other>>

\* Module and symbol are there.
Resolved ==
    /\ Importable
    /\ ImportOk(d) /\ SymbolFound(d)
    /\ Imported
    /\ err' = FALSE
    /\ pc' = "construct"
    /\ UNCHANGED <<config, order, mode, COMPONENTS, i, res, obj, exc,
                   log, tasks, returned,
                   platform, yields,
                   ran,
                   other>>

Built_hooksForNone ==
    CASE d.build = "obj" ->
            /\ obj' = Inst(cur, i) /\ err' = FALSE /\ log' = log /\ pc' = "init"
      [] d.build = "none" ->
            /\ obj' = None /\ err' = FALSE /\ log' = log /\ pc' = "init"
      [] d.build = "raise" ->
            /\ obj' = None /\ err' = TRUE
            /\ log' = Log("error", "Error during creation of object", cur)
            /\ pc' = "noobj"

\* What the call of the exported symbol leaves behind: the object, None, or
\* the except branch (report, obj = None, err = True).
Built ==
    CASE d.build = "obj" ->
            /\ obj' = Inst(cur, i) /\ err' = FALSE /\ log' = log /\ pc' = "init"
      [] d.build = "none" ->
            /\ obj' = None /\ err' = FALSE /\ log' = log /\ pc' = "noobj"
      [] d.build = "raise" ->
            /\ obj' = None /\ err' = TRUE
            /\ log' = Log("error", "Error during creation of object", cur)
            /\ pc' = "noobj"

\* Constructor arguments are resolved (rewriting constructor_args in place)
\* and the symbol is called.
Invoked ==
    /\ pc = "construct"
    /\ data' = [data EXCEPT ![cur].cargs = Rewritten(d.cargs, COMPONENTS)]
    /\ calls' = Append(calls, Call("construct",
                                   IF d.cargs.kind = "list"
                                   THEN getArgs(d.cargs, COMPONENTS) ELSE <<>>,
                                   IF d.cargs.kind = "dict"
                                   THEN getKwargs(d.cargs, COMPONENTS) ELSE <<>>))

\* obj = obj(*args, **kwargs)
Construct ==
    /\ Invoked
    /\ d.symbol = "class"
    /\ Built
    /\ UNCHANGED <<config, order, mode, COMPONENTS, i, res, exc, tasks, returned,
                   platform, yields,
                   ran,
                   other>>

CallFactory_notAwaited ==
    /\ Invoked
    /\ d.symbol = "async"
    /\ obj' = Pending(cur, i) /\ err' = FALSE
    /\ pc' = "init"
    /\ UNCHANGED <<config, order, mode, COMPONENTS, i, res, exc,
                   log, tasks, returned, platform, yields,
                   ran,
                   other>>

\* obj = await obj(*args, **kwargs): the driver is suspended in the factory.
CallFactory ==
    /\ Invoked
    /\ d.symbol = "async"
    /\ pc' = "awaitFactory"
    /\ UNCHANGED <<config, order, mode, COMPONENTS, i, res, obj, err, exc,
                   log, tasks, returned,
                   platform, yields,
                   ran,
                   other>>

\* The awaited factory completes.
FactoryDone ==
    /\ pc = "awaitFactory"
    /\ Built
    /\ UNCHANGED <<data, config, order, mode, COMPONENTS, i, res, exc,
                   calls, tasks, returned,
                   platform, yields,
                   ran,
                   other>>

AddedAsService_stored ==
    /\ pc = "noobj" /\ err = FALSE
    /\ COMPONENTS' = Put(COMPONENTS, cur, obj)
    /\ log' = Log("info", "Added component as service", cur)
    /\ res' = TRUE
    /\ pc' = "endIter"
    /\ UNCHANGED <<data, config, order, mode, i, obj, err, exc,
                   calls, tasks, returned, platform, yields, ran,
                   other>>

\* obj is None and err is False: "Added component ... as service".
AddedAsService ==
    /\ pc = "noobj" /\ err = FALSE
    /\ log' = Log("info", "Added component as service", cur)
    /\ res' = TRUE
    /\ pc' = "endIter"
    /\ UNCHANGED <<data, config, order, mode, COMPONENTS, i, obj, err, exc,
                   calls, tasks, returned,
                   platform, yields,
                   ran,
                   other>>

\* obj is None and err is True: res = False.
ConstructionFailed ==
    /\ pc = "noobj" /\ err = TRUE
    /\ res' = FALSE
    /\ pc' = "endIter"
    /\ UNCHANGED <<data, config, order, mode, COMPONENTS, i, obj, err, exc,
                   log, calls, tasks, returned,
                   platform, yields,
                   ran,
                   other>>

(***************************************************************************)
(* The init hook.                                                          *)
(***************************************************************************)
InitDeclared == d.init = "declared"

\* No init_function, or null.
InitSkipped ==
    /\ pc = "init" /\ ~InitDeclared
    /\ err' = FALSE
    /\ pc' = "register"
    /\ UNCHANGED <<data, config, order, mode, COMPONENTS, i, res, obj, exc,
                   log, calls, tasks, returned,
                   platform, yields,
                   ran,
                   other>>

\* init_args are resolved (rewriting them in place) whenever a hook is declared.
InitArgsResolved ==
    data' = [data EXCEPT ![cur].iargs = Rewritten(d.iargs, COMPONENTS)]

\* The object has no attribute named by init_function.
InitMissing ==
    /\ pc = "init" /\ InitDeclared /\ ~d.initExists
    /\ InitArgsResolved
    /\ log' = Log("critical", "init function does not exist", cur)
    /\ err' = TRUE
    /\ pc' = "register"
    /\ UNCHANGED <<config, order, mode, COMPONENTS, i, res, obj, exc,
                   calls, tasks, returned,
                   platform, yields,
                   ran,
                   other>>

\* _callAsyncSafe(init, name, args, kwargs) of
\* pysmartnode/utils/wrappers/callAsyncSafe.py: how the wrapper ends for a
\* hook that ends with `result`.  It awaits the hook inside try/except and
\* reports what it raises, so it always ends normally.
callAsyncSafe(result) == "ok"

\* How the hook's end is taken.  A raise of a plain method, or of the
\* coroutine it returned, enters the except branch, whose message has the
\* conversion "{!e}": str.format raises ValueError before anything is
\* logged and before err is set, and the ValueError leaves the call.
\* The await of _callAsyncSafe is outside the try.
InitEnded ==
    CASE d.initKind = "asyncfn" /\ callAsyncSafe(d.initResult) = "raise" ->
            pc' = "raised" /\ exc' = "Exception"
      [] d.initKind # "asyncfn" /\ d.initResult = "raise" ->
            pc' = "raised" /\ exc' = "ValueError"
      [] OTHER ->
            pc' = "register" /\ exc' = exc

InitCalled ==
    /\ pc = "init" /\ InitDeclared /\ d.initExists
    /\ InitArgsResolved
    /\ calls' = Append(calls, Call("init",
                                   IF d.iargs.kind = "list"
                                   THEN getArgs(d.iargs, COMPONENTS) ELSE <<>>,
                                   IF d.iargs.kind = "dict"
                                   THEN getKwargs(d.iargs, COMPONENTS) ELSE <<>>))
    /\ err' = FALSE

\* tmp_init = init(*args, **kwargs) of a plain method.
InitSync ==
    /\ InitCalled
    /\ d.initKind = "sync"
    /\ InitEnded
    /\ UNCHANGED <<config, order, mode, COMPONENTS, i, res, obj,
                   log, tasks, returned,
                   platform, yields,
                   ran,
                   other>>

InitAwait_inserting ==
    /\ InitCalled
    /\ d.initKind \in {"coro", "asyncfn"}
    /\ pc' = "awaitInit"
    /\ COMPONENTS' = Put(COMPONENTS, cur, obj)
    /\ UNCHANGED <<config, order, mode, i, res, obj, exc, log, tasks, returned,
                   platform, yields,
                   ran,
                   other>>

\* await tmp_init, or await _callAsyncSafe(init, ...): the driver is suspended.
InitAwait ==
    /\ InitCalled
    /\ d.initKind \in {"coro", "asyncfn"}
    /\ pc' = "awaitInit"
    /\ UNCHANGED <<config, order, mode, COMPONENTS, i, res, obj, exc,
                   log, tasks, returned,
                   platform, yields,
                   ran,
                   other>>

\* The awaited hook completes.
InitDone ==
    /\ pc = "awaitInit"
    /\ InitEnded
    /\ UNCHANGED <<data, config, order, mode, COMPONENTS, i, res, obj, err,
                   log, calls, tasks, returned,
                   platform, yields,
                   ran,
                   other>>

(***************************************************************************)
(* The recurring hook and the insertion.                                   *)
(***************************************************************************)
RegularDeclared == d.regular = "declared"

\* `err is False and "call_function_regularly" in component and ... is not None`
ShouldSchedule == err = FALSE /\ RegularDeclared

ShouldInsert_always == TRUE

ShouldInsert_strict == err = FALSE /\ ~(RegularDeclared /\ ~d.regularExists)

\* `if err is False:` before COMPONENTS[componentname] = obj
ShouldInsert == err = FALSE

\* The declared recurring method does not exist: the report is awaited, and
\* the insertion is still to come when the driver resumes.
RegularMissing ==
    /\ pc = "register" /\ ShouldSchedule /\ ~d.regularExists
    /\ log' = Log("critical", "obj has no function", "")
    /\ pc' = "insert"
    /\ UNCHANGED <<data, config, order, mode, COMPONENTS, i, res, obj, err, exc,
                   calls, tasks, returned,
                   platform, yields,
                   ran,
                   other>>

\* The driver is at `if err is False:` (line 154), either straight from the
\* hooks or after the awaited report of a missing recurring method.
AtInsertion ==
    \/ pc = "register" /\ ~(ShouldSchedule /\ ~d.regularExists)
    \/ pc = "insert"

Register_suspending ==
    /\ AtInsertion /\ ShouldInsert
    /\ IF pc = "register" /\ ShouldSchedule
       THEN /\ tasks' = Append(tasks, [name |-> cur, at |-> i])
            /\ pc' = "insert"
            /\ UNCHANGED <<COMPONENTS, log, res,
                   other>>
       ELSE /\ tasks' = tasks
            /\ COMPONENTS' = Put(COMPONENTS, cur, obj)
            /\ log' = Log("info", "Added component", cur)
            /\ res' = TRUE
            /\ pc' = "endIter"
    /\ UNCHANGED <<data, config, order, mode, i, obj, err, exc, calls, returned,
                   platform, yields, ran,
                   other>>

\* The recurring task is created when its method exists, then
\* COMPONENTS[componentname] = obj, with no suspension in between.
Register ==
    /\ AtInsertion /\ ShouldInsert
    /\ tasks' = IF pc = "register" /\ ShouldSchedule
                THEN Append(tasks, [name |-> cur, at |-> i])
                ELSE tasks
    /\ COMPONENTS' = Put(COMPONENTS, cur, obj)
    /\ log' = Log("info", "Added component", cur)
    /\ res' = TRUE
    /\ pc' = "endIter"
    /\ UNCHANGED <<data, config, order, mode, i, obj, err, exc, calls, returned,
                   platform, yields,
                   ran,
                   other>>

HookFailed_scheduling ==
    /\ AtInsertion /\ ~ShouldInsert
    /\ tasks' = IF RegularDeclared /\ d.regularExists
                THEN Append(tasks, [name |-> cur, at |-> i])
                ELSE tasks
    /\ pc' = "endIter"
    /\ UNCHANGED <<data, config, order, mode, COMPONENTS, i, res, obj, err, exc,
                   log, calls, returned, platform, yields,
                   ran,
                   other>>

\* err is True after the init hook: nothing is scheduled or stored.
HookFailed ==
    /\ AtInsertion /\ ~ShouldInsert
    /\ pc' = "endIter"
    /\ UNCHANGED <<data, config, order, mode, COMPONENTS, i, res, obj, err, exc,
                   log, calls, tasks, returned,
                   platform, yields,
                   ran,
                   other>>

(***************************************************************************)
(* End of a pass.                                                          *)
(***************************************************************************)
\* _registerComponents(data) with several entries: on to the next one.
NextEntry ==
    /\ mode = "direct" /\ pc = "endIter" /\ i < Len(order)
    /\ i' = i + 1
    /\ pc' = "iter"
    /\ UNCHANGED <<data, config, order, mode, COMPONENTS, res, obj, err, exc,
                   log, calls, tasks, returned,
                   platform, yields,
                   ran,
                   other>>

\* return res
Return ==
    /\ pc = "endIter"
    /\ mode = "all" \/ i = Len(order)
    /\ returned' = Append(returned, res)
    /\ IF mode = "all"
       THEN pc' = "pause" /\ i' = i
       ELSE pc' = "done" /\ i' = i + 1
    /\ UNCHANGED <<data, config, order, mode, COMPONENTS, res, obj, err, exc,
                   log, calls, tasks,
                   platform, yields,
                   ran,
                   other>>

Next ==
    \/ Finish \/ LookupRaises \/ CallRegister \/ Pause \/ Wake
    \/ MissingDescriptor \/ Duplicate \/ MissingField
    \/ ImportFailed \/ SymbolMissing \/ Resolved
    \/ Construct \/ CallFactory \/ FactoryDone
    \/ AddedAsService \/ ConstructionFailed
    \/ InitSkipped \/ InitMissing \/ InitSync \/ InitAwait \/ InitDone
    \/ RegularMissing \/ Register \/ HookFailed
    \/ NextEntry \/ Return

Spec == Init /\ [][Next]_vars

\* The event loop keeps running the driver: whenever it can take a step (it
\* is runnable, or what it awaits completes), it eventually does.
FairSpec == Spec /\ WF_vars(Next)

\* The driver on any of the platforms.
InitPlatforms == Start(Platforms)

SpecPlatforms == InitPlatforms /\ [][Next]_vars

(***************************************************************************)
(* The recurring tasks handed to loop.create_task.  The scheduler is       *)
(* cooperative: a task runs only while the driver is suspended in an await *)
(* (a factory, an init hook, a report, the sleep) or has ended.            *)
(***************************************************************************)
Suspended ==
    pc \in {"awaitFactory", "awaitInit", "insert", "endIter", "sleeping",
            "done", "raised"}

\* What a lookup of `name` in config.COMPONENTS returns.
Lookup(name) == IF name \in DOMAIN COMPONENTS THEN COMPONENTS[name] ELSE None

HasRun(t) == \E k \in DOMAIN ran : ran[k].task = t

\* The first execution of the task created for the recurring method of
\* tasks[t].name: it finds what the Registry holds under that name.
RunTask(t) ==
    /\ Suspended
    /\ ~HasRun(t)
    /\ ran' = Append(ran, [task |-> t, pc |-> pc, found |-> Lookup(tasks[t].name)])
    /\ UNCHANGED <<data, config, order, mode, COMPONENTS, pc, i, res, obj, err,
                   exc, log, calls, tasks, returned, platform, yields, other>>

RunTasks == \E t \in DOMAIN tasks : RunTask(t)

NextTasks == Next \/ RunTasks

SpecTasks == Init /\ [][NextTasks]_vars

(***************************************************************************)
(* Two driver tasks on one event loop, sharing config.COMPONENTS, the      *)
(* component dict and the logger.  One of them runs; the locals of the     *)
(* other are kept in `other`.  The event loop switches to the other task   *)
(* only where the running one awaits, has ended, or has not begun.         *)
(***************************************************************************)
MaxOrderTwo == 2

OrdersTwo == UNION { [1..k -> Names] : k \in 1..MaxOrderTwo }

\* The component dicts of the two-driver runs: the variety is in "B".
ConfigsTwo == { [n \in Names |-> IF n = "B" THEN b ELSE Plain] : b \in KindsB }

InitTwo ==
    /\ data \in ConfigsTwo
    /\ config = data
    /\ order \in OrdersTwo
    /\ mode \in {"all", "direct"}
    /\ COMPONENTS = [n \in {} |-> None]
    /\ pc = IF mode = "all" THEN "loop" ELSE "iter"
    /\ i = 1
    /\ res = InitialRes
    /\ obj = None
    /\ err = FALSE
    /\ exc = ""
    /\ log = <<>>
    /\ calls = <<>>
    /\ tasks = <<>>
    /\ returned = <<>>
    /\ platform = "esp8266"
    /\ yields = <<>>
    /\ ran = <<>>
    /\ other \in {Fresh(<<n>>, "direct") : n \in Names}

\* The running driver has not begun.
AtStart == i = 1 /\ pc = (IF mode = "all" THEN "loop" ELSE "iter")

Ended(drv) == drv.pc \in {"done", "raised"}

\* The event loop resumes the other driver task.
Switch ==
    /\ Suspended \/ AtStart
    /\ ~Ended(other)
    /\ other' = Driver(order, mode, pc, i, res, obj, err, exc)
    /\ order' = other.order /\ mode' = other.mode /\ pc' = other.pc
    /\ i' = other.i /\ res' = other.res /\ obj' = other.obj
    /\ err' = other.err /\ exc' = other.exc
    /\ UNCHANGED <<data, config, COMPONENTS, log, calls, tasks, returned,
                   platform, yields, ran>>

NextTwo == Next \/ Switch

SpecTwo == InitTwo /\ [][NextTwo]_vars

(***************************************************************************)
(* Vocabulary of the properties.                                           *)
(***************************************************************************)
Positions == 1..Len(order)

\* Entry p of the order list has been left behind by the driver.
Processed(p) == i > p

\* The driver has got to entry p of the order list.
Reached(p) == i >= p

\* Every entry of the order list has a descriptor.
AllPresent == \A p \in Positions : config[order[p]].present

\* The exported symbol was invoked for entry p.
ConstructAt(p) ==
    \E k \in DOMAIN calls : calls[k].op = "construct" /\ calls[k].at = p

\* Entry p was reported as added with an object.
AddedAt(p) ==
    \E k \in DOMAIN log : log[k].msg = "Added component" /\ log[k].at = p

\* Number of reports with this message about this component.
Reports(msg, name) ==
    Cardinality({k \in DOMAIN log : log[k].msg = msg /\ log[k].comp = name})

\* The registry holds the object built for entry p.
InsertedBy(p) ==
    /\ order[p] \in DOMAIN COMPONENTS
    /\ COMPONENTS[order[p]] = Inst(order[p], p)

\* The value the _registerComponents call for entry p returned, if it has.
HasReturned(p) ==
    \/ mode = "all" /\ p <= Len(returned)
    \/ mode = "direct" /\ Len(order) = 1 /\ p = 1 /\ Len(returned) = 1

\* A descriptor that registers without any failure.
Sound(desc) ==
    /\ desc.present /\ checkArgs(desc) /\ desc.importOk /\ desc.hasSymbol
    /\ desc.build = "obj" /\ desc.init # "declared"

\* The configured container a call's arguments were resolved from.
Source(c) ==
    IF c.op = "construct" THEN config[c.name].cargs ELSE config[c.name].iargs

\* What the call received for that container.
Passed(c) == IF Source(c).kind = "list" THEN c.args ELSE c.kwargs

ArgCalls == {k \in DOMAIN calls : calls[k].op \in {"construct", "init"}}

(***************************************************************************)
(* C1. Failure containment in registerAll: a descriptor that fails at any  *)
(* step (missing field, duplicate, import, symbol lookup, construction,    *)
(* init hook) leaves the Registry as it was, and every later descriptor of *)
(* the list is still processed; with 3 independent descriptors of which    *)
(* the 2nd fails construction, the Registry ends with exactly 1 and 3.     *)
(* Stated for order lists whose entries all have a descriptor: when the    *)
(* driver has stopped, every entry has been reached, every Registry        *)
(* entry was stored by an entry reported as added, and the scenario holds. *)
(***************************************************************************)
C1_FailureContained ==
    (mode = "all" /\ AllPresent) =>
        /\ pc \in {"done", "raised"} => \A p \in Positions : Reached(p)
        /\ \A n \in DOMAIN COMPONENTS :
              \E p \in Positions : order[p] = n /\ InsertedBy(p) /\ AddedAt(p)
        /\ ( /\ pc = "done" /\ Len(order) = 3
             /\ Cardinality({order[p] : p \in Positions}) = 3
             /\ Sound(config[order[1]]) /\ Sound(config[order[3]])
             /\ config[order[2]].build = "raise" /\ ConstructAt(2) )
           => DOMAIN COMPONENTS = {order[1], order[3]}

(***************************************************************************)
(* C2. registerAll and registerOne never raise: whatever fails (import,    *)
(* symbol lookup, construction, init hook, synchronous or asynchronous),   *)
(* no exception leaves the call.  Stated for order lists whose entries all *)
(* have a descriptor: the driver never ends with an uncaught exception.    *)
(***************************************************************************)
C2_NeverRaises == AllPresent => (pc # "raised" /\ exc = "")

(***************************************************************************)
(* C3. A string argument naming a component that is not in the Registry    *)
(* when the descriptor is processed is passed to the constructor / init    *)
(* hook as the literal string, whatever is registered later.               *)
(***************************************************************************)
C3_UnregisteredNameStaysLiteral ==
    \A k \in ArgCalls :
        LET c == calls[k]
            src == Source(c)
        IN  src.kind \in {"list", "dict"} =>
                \A j \in DOMAIN src.vals :
                    (src.vals[j].t = "str" /\ src.vals[j].s \notin c.reg) =>
                        /\ j \in DOMAIN Passed(c)
                        /\ Passed(c)[j] = src.vals[j]

\* A call received a literal name whose component was registered afterwards.
C3_Witness ==
    \E k \in ArgCalls :
        LET c == calls[k]
            src == Source(c)
        IN  /\ src.kind \in {"list", "dict"}
            /\ \E j \in DOMAIN src.vals :
                  /\ src.vals[j].t = "str"
                  /\ src.vals[j].s # c.name
                  /\ src.vals[j].s \notin c.reg
                  /\ src.vals[j].s \in DOMAIN COMPONENTS
                  /\ Passed(c)[j] = src.vals[j]

\* Name n occurs in the order list exactly at the entries p < q.
Twice(n, p, q) ==
    /\ p < q
    /\ {r \in Positions : order[r] = n} = {p, q}

(***************************************************************************)
(* C4 as stated. Registering the same name twice always yields exactly one *)
(* Registry entry for the name and exactly one 'already added' report, and *)
(* the entry is the object of the first successful registration.  Stated   *)
(* for a name whose first registration succeeded (its call returned true). *)
(***************************************************************************)
C4_TwiceAlwaysOneEntry ==
    \A n \in Names : \A p, q \in Positions :
        (Twice(n, p, q) /\ Processed(q) /\ mode = "all" /\ returned[p]) =>
            /\ n \in DOMAIN COMPONENTS
            /\ Reports("already added", n) = 1
            /\ InsertedBy(p)

(***************************************************************************)
(* C4 amended. When the first registration of a name stored an object in   *)
(* the Registry, registering the name a second time yields exactly one     *)
(* Registry entry for it, exactly one 'already added' report, and the      *)
(* entry is still the object of the first registration.                    *)
(***************************************************************************)
C4_SecondOfStoredNameRejected ==
    \A n \in Names : \A p, q \in Positions :
        (Twice(n, p, q) /\ AddedAt(p) /\ Processed(q)) =>
            /\ n \in DOMAIN COMPONENTS
            /\ Reports("already added", n) = 1
            /\ InsertedBy(p)

\* A stored name has been registered a second time and reported once.
C4_Witness ==
    \E n \in Names : \E p, q \in Positions :
        /\ Twice(n, p, q) /\ AddedAt(p) /\ Processed(q)
        /\ Reports("already added", n) = 1
        /\ InsertedBy(p)

\* Construction for the call c yielded an object whose declared init hook
\* method does not exist.
HookAbsent(c) ==
    /\ c.op = "construct"
    /\ config[c.name].build = "obj"
    /\ config[c.name].init = "declared"
    /\ ~config[c.name].initExists

(***************************************************************************)
(* C5. If construction yields an object but the declared init hook method  *)
(* does not exist on it, the Registry never maps the descriptor's name to  *)
(* that object, and registerOne returns false for it.                      *)
(***************************************************************************)
C5_MissingInitHookNotRegistered ==
    \A k \in DOMAIN calls :
        HookAbsent(calls[k]) =>
            /\ ~InsertedBy(calls[k].at)
            /\ HasReturned(calls[k].at) =>
                  returned[calls[k].at] = FALSE

\* Such a descriptor has been processed to its end and false was returned.
C5_Witness ==
    \E k \in DOMAIN calls :
        /\ HookAbsent(calls[k])
        /\ HasReturned(calls[k].at)
        /\ returned[calls[k].at] = FALSE
        /\ calls[k].name \notin DOMAIN COMPONENTS

\* No init hook is declared for the descriptor (field absent or null).
NoInitHook(desc) == desc.init \in {"absent", "null"}

(***************************************************************************)
(* C6 as stated. If construction succeeds (the call of the exported symbol *)
(* does not raise) and no init hook is declared, the instance is inserted  *)
(* into the Registry under the descriptor's name.                          *)
(***************************************************************************)
C6_NoInitHookAlwaysInserted ==
    \A p \in Positions :
        ( /\ Processed(p) /\ ConstructAt(p)
          /\ config[order[p]].build # "raise"
          /\ NoInitHook(config[order[p]]) )
        => InsertedBy(p)

(***************************************************************************)
(* C6 amended. If construction succeeds with a non-absent instance and no  *)
(* init hook is declared, the instance is inserted into the Registry under *)
(* the descriptor's name; a declared recurring hook whose method is absent *)
(* on the instance is only reported and does not prevent the insertion.    *)
(***************************************************************************)
C6_NoInitHookObjectInserted ==
    \A p \in Positions :
        ( /\ Processed(p) /\ ConstructAt(p)
          /\ config[order[p]].build = "obj"
          /\ NoInitHook(config[order[p]]) )
        => /\ InsertedBy(p)
           /\ ( config[order[p]].regular = "declared"
                /\ ~config[order[p]].regularExists )
              => \E k \in DOMAIN log :
                    log[k].at = p /\ log[k].msg = "obj has no function"

\* An object without init hook whose recurring method is missing was inserted.
C6_Witness ==
    \E p \in Positions :
        /\ Processed(p) /\ ConstructAt(p)
        /\ config[order[p]].build = "obj"
        /\ NoInitHook(config[order[p]])
        /\ config[order[p]].regular = "declared"
        /\ ~config[order[p]].regularExists
        /\ InsertedBy(p)

(***************************************************************************)
(* C7. The Registry is append-only: once a name maps to an object, every   *)
(* later state still maps that name to the same object; no entry is        *)
(* overwritten or removed.                                                 *)
(***************************************************************************)
C7_AppendOnly ==
    [][\A n \in DOMAIN COMPONENTS :
          n \in DOMAIN COMPONENTS' /\ COMPONENTS'[n] = COMPONENTS[n]]_vars

\* A registered name came up again in the order list and kept its first object.
C7_Witness ==
    \E p, q \in Positions :
        /\ p < q /\ order[p] = order[q]
        /\ Processed(q)
        /\ InsertedBy(p)

\* Names of the entries before i whose _registerComponents call returned true.
ReturnedTrueBefore == {order[p] : p \in {q \in 1..(i - 1) : returned[q]}}

(***************************************************************************)
(* C8 as stated. In a registerAll run from an empty Registry, when entry i *)
(* begins, the names in the Registry are exactly those of the entries      *)
(* before i that completed successfully.                                   *)
(***************************************************************************)
C8_RegistryIsSuccessfulPrefix ==
    (mode = "all" /\ pc = "loop") => DOMAIN COMPONENTS = ReturnedTrueBefore

(***************************************************************************)
(* C8 amended. In a registerAll run from an empty Registry, when entry i   *)
(* begins, the names in the Registry are exactly those of the entries      *)
(* before i that completed successfully with a non-absent instance (an     *)
(* entry added as a service completes successfully and is not in the       *)
(* Registry); entries that failed are absent.                              *)
(***************************************************************************)
C8_RegistryIsObjectPrefix ==
    (mode = "all" /\ pc = "loop") =>
        DOMAIN COMPONENTS =
            {order[p] : p \in {q \in 1..(i - 1) :
                                  returned[q] /\ config[order[q]].build = "obj"}}

\* The third entry begins after one entry succeeded and one failed.
C8_Witness ==
    /\ mode = "all" /\ pc = "loop" /\ i = 3
    /\ returned[1] /\ ~returned[2]
    /\ DOMAIN COMPONENTS = {order[1]}
    /\ order[2] # order[1]

(***************************************************************************)
(* C9 as stated. registerOne returns true if and only if the descriptor's  *)
(* name is present in the Registry after the call as a result of this      *)
(* call; for every failure it returns false.                               *)
(***************************************************************************)
C9_TrueIffInRegistry ==
    \A p \in Positions :
        HasReturned(p) => (returned[p] <=> InsertedBy(p))

\* Entry p was invoked and yielded None without raising.
ServiceAt(p) == ConstructAt(p) /\ config[order[p]].build = "none"

(***************************************************************************)
(* C9 amended. registerOne returns true if and only if this call stored    *)
(* the descriptor's instance in the Registry or the exported symbol        *)
(* returned an absent instance without raising (added as a service, with   *)
(* no Registry entry); for every failure it returns false.                 *)
(***************************************************************************)
C9_TrueIffAdded ==
    \A p \in Positions :
        HasReturned(p) => (returned[p] <=> (InsertedBy(p) \/ ServiceAt(p)))

\* Within one run a call returned true and another returned false.
C9_Witness ==
    \E p, q \in Positions :
        /\ HasReturned(p) /\ HasReturned(q)
        /\ returned[p] /\ InsertedBy(p)
        /\ ~returned[q] /\ ~InsertedBy(q) /\ ~ServiceAt(q)

\* The value the resolver owes for a configured value, given the names that
\* were registered at the time of the call.
Owed(v, reg) == IF v.t = "str" /\ v.s \in reg THEN COMPONENTS[v.s] ELSE v

(***************************************************************************)
(* C10. Argument resolver: of a list or dict container every top-level     *)
(* string equal to a key of the Registry is replaced by the registered     *)
(* instance and every other value is passed unchanged; a container that is *)
(* neither list nor dict yields empty arguments.  So B with args ["A"],    *)
(* processed after A was registered with instance v, is built with v.      *)
(***************************************************************************)
C10_ResolverResult ==
    \A k \in ArgCalls :
        LET c == calls[k]
            src == Source(c)
        IN  /\ src.kind = "list" =>
                /\ c.kwargs = <<>>
                /\ DOMAIN c.args = DOMAIN src.vals
                /\ \A j \in DOMAIN src.vals : c.args[j] = Owed(src.vals[j], c.reg)
            /\ src.kind = "dict" =>
                /\ c.args = <<>>
                /\ DOMAIN c.kwargs = DOMAIN src.vals
                /\ \A j \in DOMAIN src.vals : c.kwargs[j] = Owed(src.vals[j], c.reg)
            /\ src.kind \notin {"list", "dict"} =>
                c.args = <<>> /\ c.kwargs = <<>>

\* B was built with the instance registered for A in place of the string "A".
C10_Witness ==
    \E k \in DOMAIN calls :
        /\ calls[k].op = "construct" /\ calls[k].name = "B"
        /\ config["B"].cargs = ListArgs
        /\ "A" \in calls[k].reg
        /\ calls[k].args[1] = COMPONENTS["A"]
        /\ calls[k].args[1].t = "inst"
        /\ calls[k].args[2] = Str("C")
        /\ calls[k].args[3] = Num(5)

\* Calls of kind op made for entry p.
CallsAt(op, p) == {k \in DOMAIN calls : calls[k].op = op /\ calls[k].at = p}

\* Reports made while entry p was processed.
LogAt(p) == {k \in DOMAIN log : log[k].at = p}

\* The driver has stopped, by returning or by an exception.
Stopped == pc \in {"done", "raised"}

\* Once the driver has stopped, it had gone on to the entry after p.
WentOn(p) == (Stopped /\ p < Len(order)) => Reached(p + 1)

\* The module of entry p was imported and lacks the exported symbol.
SymbolLacking(p) ==
    /\ CallsAt("import", p) # {}
    /\ config[order[p]].importOk /\ ~config[order[p]].hasSymbol

(***************************************************************************)
(* C11. If the resolved module lacks the exported symbol, this is reported *)
(* (once, as critical), no constructor or hook is invoked, the Registry    *)
(* gets no entry for the name, registerOne returns false, and the          *)
(* descriptors after it are still processed.                               *)
(***************************************************************************)
C11_MissingSymbolAbandoned ==
    \A p \in Positions :
        (SymbolLacking(p) /\ (Processed(p) \/ pc = "endIter")) =>
            /\ \E k \in LogAt(p) :
                  /\ LogAt(p) = {k}
                  /\ log[k].msg = "error during import of module"
                  /\ log[k].sev = "critical"
            /\ CallsAt("construct", p) = {} /\ CallsAt("init", p) = {}
            /\ \A t \in DOMAIN tasks : tasks[t].at # p
            /\ order[p] \notin DOMAIN COMPONENTS
            /\ HasReturned(p) => returned[p] = FALSE
            /\ WentOn(p)

\* A descriptor lacking its symbol was abandoned with false and the next
\* descriptor was registered after it.
C11_Witness ==
    \E p \in Positions :
        /\ SymbolLacking(p) /\ HasReturned(p) /\ returned[p] = FALSE
        /\ p < Len(order) /\ InsertedBy(p + 1)

\* The import for entry p was attempted and raised.
ImportRaised(p) ==
    /\ CallsAt("import", p) # {}
    /\ ~config[order[p]].importOk

(***************************************************************************)
(* C12. If resolving the module reference raises, the failure is reported  *)
(* once, the descriptor is abandoned without symbol lookup, argument       *)
(* resolution, construction or hooks, the Registry is unchanged, and the   *)
(* driver continues with the next descriptor.                              *)
(***************************************************************************)
C12_ImportFailureAbandoned ==
    \A p \in Positions :
        (ImportRaised(p) /\ (Processed(p) \/ pc = "endIter")) =>
            /\ \E k \in LogAt(p) :
                  /\ LogAt(p) = {k}
                  /\ log[k].msg = "Error importing package"
            /\ Cardinality(CallsAt("import", p)) = 1
            /\ CallsAt("construct", p) = {} /\ CallsAt("init", p) = {}
            /\ data[order[p]].cargs = config[order[p]].cargs
            /\ data[order[p]].iargs = config[order[p]].iargs
            /\ \A t \in DOMAIN tasks : tasks[t].at # p
            /\ order[p] \notin DOMAIN COMPONENTS
            /\ WentOn(p)

\* A descriptor whose import raised was abandoned and the next descriptor
\* was registered after it.
C12_Witness ==
    \E p \in Positions :
        /\ ImportRaised(p) /\ Processed(p)
        /\ p < Len(order) /\ InsertedBy(p + 1)

\* The descriptor of entry p lacks "package" or "component".
FieldLacking(p) ==
    /\ config[order[p]].present
    /\ config[order[p]].package = "absent" \/ ~config[order[p]].hasComponent

(***************************************************************************)
(* C13. A descriptor lacking the 'package' or the 'component' field is     *)
(* reported as a missing field and skipped: no import, construction or     *)
(* hook is attempted, the Registry is unchanged, registerOne returns       *)
(* false, and the driver continues with the next descriptor.               *)
(***************************************************************************)
C13_MissingFieldSkipped ==
    \A p \in Positions :
        (FieldLacking(p) /\ (Processed(p) \/ (i = p /\ pc = "endIter"))) =>
            /\ \E k \in LogAt(p) :
                  /\ LogAt(p) = {k}
                  /\ log[k].msg = "Missing required value"
                  /\ log[k].sev = "error"
            /\ \A k \in DOMAIN calls : calls[k].at # p
            /\ \A t \in DOMAIN tasks : tasks[t].at # p
            /\ data[order[p]] = config[order[p]]
            /\ order[p] \notin DOMAIN COMPONENTS
            /\ HasReturned(p) => returned[p] = FALSE
            /\ WentOn(p)

\* A descriptor without "component" was skipped with false and the next
\* descriptor was registered after it.
C13_Witness ==
    \E p \in Positions :
        /\ FieldLacking(p) /\ ~config[order[p]].hasComponent
        /\ HasReturned(p) /\ returned[p] = FALSE
        /\ p < Len(order) /\ InsertedBy(p + 1)

\* The init hook of entry p was invoked as a method of the object (plain, or
\* returning a coroutine that is awaited) and raised.
HookRaised(p) ==
    /\ CallsAt("init", p) # {}
    /\ config[order[p]].initResult = "raise"
    /\ config[order[p]].initKind \in {"sync", "coro"}
    /\ ~(i = p /\ pc = "awaitInit")

(***************************************************************************)
(* C14. If the declared init hook method exists and its invocation raises  *)
(* (synchronous, or asynchronous and awaited), the error is reported, the  *)
(* registration is marked failed (the instance is not inserted and         *)
(* registerOne returns false), and the driver proceeds to the next         *)
(* descriptor.                                                             *)
(***************************************************************************)
C14_RaisingHookContained ==
    \A p \in Positions :
        HookRaised(p) =>
            /\ ~InsertedBy(p)
            /\ Stopped =>
                  /\ \E k \in LogAt(p) : log[k].sev \in {"error", "critical"}
                  /\ mode = "all" => (HasReturned(p) /\ returned[p] = FALSE)
                  /\ p < Len(order) => Reached(p + 1)

\* The driver is working on entry p between the duplicate test and the
\* insertion, be it running or suspended in a factory, a hook or a report.
Underway(p) ==
    /\ i = p
    /\ pc \in {"construct", "awaitFactory", "noobj", "init", "awaitInit",
               "register", "insert"}

\* The recurring hook of entry p has been evaluated: its task exists, or its
\* missing method was reported, or none was declared.
RegularEvaluated(p) ==
    CASE config[order[p]].regular # "declared" ->
            \A t \in DOMAIN tasks : tasks[t].at # p
      [] config[order[p]].regularExists ->
            Cardinality({t \in DOMAIN tasks : tasks[t].at = p}) = 1
      [] OTHER ->
            \E k \in LogAt(p) : log[k].msg = "obj has no function"

(***************************************************************************)
(* C15. The Registry insertion of a descriptor's instance happens only     *)
(* after its declared init hook has completed (the whole awaited duration  *)
(* included) and after the recurring hook has been evaluated: while an     *)
(* entry is underway, suspended or not, its name is absent from the        *)
(* Registry, and an instance that is in the Registry had its declared init *)
(* hook called and ended and its recurring hook evaluated.                 *)
(***************************************************************************)
C15_InsertedAfterHooks ==
    \A p \in Positions :
        /\ Underway(p) => order[p] \notin DOMAIN COMPONENTS
        /\ InsertedBy(p) =>
              /\ ~Underway(p)
              /\ config[order[p]].init = "declared" =>
                    Cardinality(CallsAt("init", p)) = 1
              /\ RegularEvaluated(p)

\* An instance is in the Registry whose asynchronous init hook was awaited
\* and whose recurring hook was scheduled.
C15_Witness ==
    \E p \in Positions :
        /\ InsertedBy(p)
        /\ CallsAt("init", p) # {}
        /\ config[order[p]].initKind \in {"coro", "asyncfn"}
        /\ \E t \in DOMAIN tasks : tasks[t].at = p

\* Terminal states of entry p, read off the value its call returned.
Registered(p) == HasReturned(p) /\ returned[p] = TRUE

Failed(p) == HasReturned(p) /\ returned[p] = FALSE

(***************************************************************************)
(* C16. Every entry of the order list that is processed ends in exactly    *)
(* one of the terminal states Registered or Failed, never both, the        *)
(* terminal state never changes afterwards, and a descriptor that ended    *)
(* Failed is not imported or constructed again in the same registerAll     *)
(* run.  Stated per entry of an order list whose entries all have a        *)
(* descriptor: an entry the driver has left, or stopped at, has a terminal *)
(* state; Registered entries were reported as added, Failed ones never     *)
(* are in the Registry; no entry is imported or constructed twice.         *)
(***************************************************************************)
C16_OneTerminalState ==
    (mode = "all" /\ AllPresent) =>
        \A p \in Positions :
            /\ (Processed(p) \/ (Stopped /\ Reached(p))) =>
                  (Registered(p) \/ Failed(p))
            /\ Registered(p) => (AddedAt(p) \/ ServiceAt(p))
            /\ Failed(p) => (~InsertedBy(p) /\ ~AddedAt(p) /\ ~ServiceAt(p))
            /\ Cardinality(CallsAt("import", p)) <= 1
            /\ Cardinality(CallsAt("construct", p)) <= 1

\* Entry p names a component that an earlier entry had put into the Registry.
NameTaken(p) == \E q \in 1..(p - 1) : order[q] = order[p] /\ InsertedBy(q)

\* The exported symbol of entry p was invoked and raised.
BuildRaised(p) ==
    /\ ConstructAt(p) /\ config[order[p]].build = "raise"

\* The object of entry p was built and lacks the declared init hook.
InitLacking(p) ==
    /\ ConstructAt(p) /\ config[order[p]].build = "obj"
    /\ config[order[p]].init = "declared" /\ ~config[order[p]].initExists

\* Entry p has a report with this message and severity.
ReportedAt(p, msg, sev) ==
    \E k \in LogAt(p) : log[k].msg = msg /\ log[k].sev = sev

(***************************************************************************)
(* C17. Every duplicate-name report and every missing-init-hook report is  *)
(* emitted with severity critical, and every construction failure (the     *)
(* exported symbol raised) with severity error; none of these conditions   *)
(* is reported with another severity, and each of them is reported.        *)
(***************************************************************************)
C17_Severities ==
    /\ \A k \in DOMAIN log :
          /\ log[k].msg \in {"already added", "init function does not exist"}
                => log[k].sev = "critical"
          /\ log[k].msg = "Error during creation of object"
                => log[k].sev = "error"
    /\ \A p \in Positions :
          Processed(p) =>
              /\ NameTaken(p) => ReportedAt(p, "already added", "critical")
              /\ InitLacking(p) =>
                    ReportedAt(p, "init function does not exist", "critical")
              /\ BuildRaised(p) =>
                    ReportedAt(p, "Error during creation of object", "error")

\* One run reported a duplicate name and a construction failure.
C17_Witness ==
    \E p, q \in Positions :
        /\ NameTaken(p) /\ ReportedAt(p, "already added", "critical")
        /\ BuildRaised(q)
        /\ ReportedAt(q, "Error during creation of object", "error")

\* The error reports: those of severity error or critical.
ErrorReports == {k \in DOMAIN log : log[k].sev \in {"error", "critical"}}

\* Messages whose text is formatted with componentname.
NamingMessages ==
    {"not in component dict", "already added",
     "Error during creation of object", "init function does not exist"}

\* Messages formatted with the field, the package, the symbol or the method
\* instead.
AnonymousMessages ==
    {"Missing required value", "Error importing package",
     "error during import of module", "obj has no function"}

(***************************************************************************)
(* C18. Every error report sent to the diagnostic sink for a descriptor    *)
(* (missing field, duplicate, import failure, missing symbol, construction *)
(* error, missing init hook, init hook error, missing recurring method)    *)
(* carries a severity and identifies the component name of the descriptor  *)
(* being processed.                                                        *)
(***************************************************************************)
C18_ReportsNameComponent ==
    \A k \in ErrorReports : log[k].comp = order[log[k].at]

(***************************************************************************)
(* C18 amended. Every error report carries a severity; the reports of a    *)
(* duplicate, a construction error and a missing init hook (and of a name  *)
(* without descriptor) identify the component name of the entry being      *)
(* processed; the reports of a missing field, an import failure, a missing *)
(* symbol and a missing recurring method do not.                           *)
(***************************************************************************)
C18_ReportsNameWhereFormatted ==
    \A k \in ErrorReports :
        /\ log[k].msg \in NamingMessages \cup AnonymousMessages
        /\ log[k].msg \in NamingMessages => log[k].comp = order[log[k].at]
        /\ log[k].msg \in AnonymousMessages => log[k].comp = ""

\* One run made a report that names its component and one that does not.
C18_Witness ==
    \E j, k \in ErrorReports :
        /\ log[j].msg = "already added"
        /\ log[j].comp = order[log[j].at]
        /\ log[k].msg = "Error importing package"
        /\ log[k].comp = ""

\* Calls of kind op made for the descriptor named n.
CallsFor(op, n) == {k \in DOMAIN calls : calls[k].op = op /\ calls[k].name = n}

\* The pass that made construct call k went on to look up a declared init
\* hook on the object it built.
InitLookedUp(k) ==
    /\ config[calls[k].name].build = "obj"
    /\ config[calls[k].name].init = "declared"
    /\ \/ i > calls[k].at
       \/ pc \in {"awaitInit", "register", "insert", "endIter", "pause", "sleeping",
                  "raised", "done"}

\* The registries (as sets of names) that the constructor_args, and the
\* init_args, of descriptor n were resolved against so far.
ResolvedCargs(n) == {calls[k].reg : k \in CallsFor("construct", n)}

ResolvedIargs(n) ==
    {calls[k].reg : k \in {c \in CallsFor("construct", n) : InitLookedUp(c)}}

\* What the record's container must hold now, given the configured container
\* and the registries it was resolved against: in a list or dict, a string
\* that named a registered component has become that component's instance;
\* everything else is as configured.
Replaced(c, regs) ==
    IF c.kind \in {"list", "dict"}
    THEN [c EXCEPT !.vals =
            [j \in DOMAIN c.vals |->
                IF c.vals[j].t = "str" /\ \E reg \in regs : c.vals[j].s \in reg
                THEN COMPONENTS[c.vals[j].s]
                ELSE c.vals[j]]]
    ELSE c

(***************************************************************************)
(* C19. Descriptor immutability: processing a descriptor, whether it ends  *)
(* Registered or Failed, leaves the configuration record unchanged: its    *)
(* module reference, constructor_args and init_args hold the same values   *)
(* afterwards as before (string references are not replaced inside the     *)
(* configuration itself).                                                  *)
(***************************************************************************)
C19_DescriptorUnchanged ==
    \A n \in Names :
        /\ data[n].package = config[n].package
        /\ data[n].cargs = config[n].cargs
        /\ data[n].iargs = config[n].iargs

(***************************************************************************)
(* C19 amended. Processing a descriptor changes its configuration record   *)
(* in these ways only: a relative module reference is replaced by its      *)
(* absolute form once the import is attempted; in a list or dict           *)
(* constructor_args, once the symbol is invoked, and in a list or dict     *)
(* init_args, once a declared init hook is looked up, each top-level       *)
(* string that names a registered component is replaced by that            *)
(* component's instance.  Every other field, every other value, and every  *)
(* record not got that far, is as configured.                              *)
(***************************************************************************)
C19_DescriptorRewrittenInPlace ==
    \A n \in Names :
        /\ data[n].package =
              IF config[n].package = "relative" /\ CallsFor("import", n) # {}
              THEN "absolute" ELSE config[n].package
        /\ data[n].cargs = Replaced(config[n].cargs, ResolvedCargs(n))
        /\ data[n].iargs = Replaced(config[n].iargs, ResolvedIargs(n))
        /\ [data[n] EXCEPT !.package = config[n].package,
                           !.cargs = config[n].cargs,
                           !.iargs = config[n].iargs] = config[n]

\* A processed record now has the absolute module reference and an instance
\* where its constructor_args and its init_args named a component.
C19_Witness ==
    \E p \in Positions :
        /\ Processed(p)
        /\ config[order[p]].package = "relative"
        /\ data[order[p]].package = "absolute"
        /\ \E j \in DOMAIN config[order[p]].cargs.vals :
              /\ config[order[p]].cargs.vals[j].t = "str"
              /\ data[order[p]].cargs.vals[j].t = "inst"
        /\ \E j \in DOMAIN config[order[p]].iargs.vals :
              /\ config[order[p]].iargs.vals[j].t = "str"
              /\ data[order[p]].iargs.vals[j].t = "inst"

\* Entry p has been started: something was called or reported for it.
Started(p) == (\E k \in DOMAIN calls : calls[k].at = p) \/ LogAt(p) # {}

(***************************************************************************)
(* C20. registerAll processes the descriptors exactly in the order of the  *)
(* order list, each list entry once, and descriptor i+1 does not start (no *)
(* import, argument resolution or construction) before descriptor i has    *)
(* reached Registered or Failed, also while descriptor i is suspended in   *)
(* an asynchronous factory or init hook; no two descriptors are under      *)
(* construction at the same time.  Stated for order lists whose entries    *)
(* all have a descriptor: calls and reports come in list order, nothing is *)
(* started beyond the current entry, an entry is started only when all     *)
(* entries before it have returned, no entry is imported or constructed    *)
(* twice, and when the driver has stopped every entry has been started.    *)
(***************************************************************************)
C20_StrictlySequential ==
    (mode = "all" /\ AllPresent) =>
        /\ \A j, k \in DOMAIN calls : j < k => calls[j].at <= calls[k].at
        /\ \A j, k \in DOMAIN log : j < k => log[j].at <= log[k].at
        /\ \A p \in Positions :
              /\ Started(p) => (p <= i /\ \A q \in 1..(p - 1) : HasReturned(q))
              /\ Cardinality(CallsAt("import", p)) <= 1
              /\ Cardinality(CallsAt("construct", p)) <= 1
              /\ Cardinality(CallsAt("init", p)) <= 1
              /\ Stopped => Started(p)
        /\ Len(returned) <= Len(order)

\* The steps registerComponentsAsync made after the call for entry p returned.
YieldsAt(p) == SelectSeq(yields, LAMBDA y : y.at = p)

\* The cooperative pauses among them.
SleepsAt(p) == {k \in DOMAIN yields : yields[k].op = "sleep" /\ yields[k].at = p}

(***************************************************************************)
(* C21. After every descriptor reaches its terminal state, Registered or   *)
(* Failed, and before the next descriptor starts, the driver performs a    *)
(* memory-reclamation step and exactly one cooperative pause; the pause is *)
(* longer on esp8266 than on the other targets and is always finite.       *)
(* Stated of registerAll: the steps after entry p come only once its call  *)
(* has returned, they are a reclamation and one pause (then a second       *)
(* reclamation), all made before anything of entry p+1 starts, and the     *)
(* pause lasts 750 ms on esp8266 and 200 ms elsewhere.                     *)
(***************************************************************************)
C21_YieldBetweenDescriptors ==
    mode = "all" =>
        \A p \in Positions :
            /\ YieldsAt(p) # <<>> => HasReturned(p)
            /\ Cardinality(SleepsAt(p)) <= 1
            /\ \A k \in SleepsAt(p) :
                  /\ k > 1 /\ yields[k - 1] = [op |-> "gc", at |-> p, ms |-> 0]
                  /\ yields[k].ms = IF platform = "esp8266"
                                    THEN SleepMsEsp8266 ELSE SleepMsOther
                  /\ yields[k].ms \in Nat
            /\ (Processed(p) \/ (p < Len(order) /\ Started(p + 1))) =>
                  /\ HasReturned(p)
                  /\ Len(YieldsAt(p)) = 3
                  /\ YieldsAt(p)[1].op = "gc"
                  /\ YieldsAt(p)[2].op = "sleep"
                  /\ YieldsAt(p)[3].op = "gc"
            /\ SleepMsEsp8266 > SleepMsOther

\* On esp8266 a descriptor ended Failed, the driver paused for 750 ms, and the
\* next descriptor was started.
C21_Witness ==
    \E p \in Positions :
        /\ mode = "all" /\ platform = "esp8266"
        /\ Failed(p) /\ p < Len(order) /\ Started(p + 1)
        /\ \E k \in SleepsAt(p) : yields[k].ms = SleepMsEsp8266

(***************************************************************************)
(* C22. Progress: under fair scheduling, with every awaited factory, init  *)
(* hook and log call completing, every descriptor the driver begins        *)
(* eventually reaches Registered or Failed, and registerAll terminates     *)
(* after the last entry of the order list.  Stated for order lists whose   *)
(* entries all have a descriptor: every entry is eventually begun and      *)
(* eventually has returned true or false, and the driver ends by           *)
(* returning.                                                              *)
(***************************************************************************)
C22_Progress ==
    (mode = "all" /\ AllPresent) =>
        /\ \A p \in 1..MaxOrder :
              [](p \in Positions /\ i = p /\ pc = "iter"
                    => <>(Registered(p) \/ Failed(p)))
        /\ <>(pc = "done" /\ \A p \in Positions : Registered(p) \/ Failed(p))

\* The pass for entry p is over.
PassOver(p) == Processed(p) \/ (i = p /\ pc \in {"endIter", "pause", "sleeping"})

(***************************************************************************)
(* C23. Service components: when invoking the exported symbol completes    *)
(* without raising and yields None, this is not an error: it is reported   *)
(* at info severity as added "as service", registerOne returns true, and   *)
(* neither the init hook nor the recurring hook is evaluated for it, even  *)
(* if declared.                                                            *)
(***************************************************************************)
C23_ServiceAdded ==
    \A p \in Positions :
        (ServiceAt(p) /\ PassOver(p)) =>
            /\ \E k \in LogAt(p) :
                  /\ LogAt(p) = {k}
                  /\ log[k].msg = "Added component as service"
                  /\ log[k].sev = "info"
                  /\ log[k].comp = order[p]
            /\ HasReturned(p) => returned[p] = TRUE
            /\ CallsAt("init", p) = {}
            /\ data[order[p]].iargs = config[order[p]].iargs
            /\ \A t \in DOMAIN tasks : tasks[t].at # p

\* A descriptor declaring both hooks yielded None and returned true.
C23_Witness ==
    \E p \in Positions :
        /\ ServiceAt(p) /\ Registered(p)
        /\ config[order[p]].init = "declared"
        /\ config[order[p]].regular = "declared"

\* The exported symbol of entry p is an asynchronous factory that was invoked.
FactoryAt(p) == ConstructAt(p) /\ config[order[p]].symbol = "async"

(***************************************************************************)
(* C24. Asynchronous factory: the driver invokes it and suspends until it  *)
(* completes; the value then used for the hooks and recorded in the        *)
(* Registry is the factory's completed result, never the pending coroutine *)
(* object; an exception raised inside the awaited factory is handled as a  *)
(* construction error exactly like one of a synchronous constructor:       *)
(* reported as an error naming the component, nothing registered, no hook, *)
(* false returned.                                                         *)
(***************************************************************************)
C24_FactoryAwaited ==
    /\ \A n \in DOMAIN COMPONENTS : COMPONENTS[n].t = "inst"
    /\ \A p \in Positions :
          FactoryAt(p) =>
              /\ (i = p /\ pc = "awaitFactory") =>
                    /\ LogAt(p) = {} /\ CallsAt("init", p) = {}
                    /\ order[p] \notin DOMAIN COMPONENTS
              /\ (i = p /\ pc \in {"init", "awaitInit", "register", "insert"}) =>
                    obj = Inst(order[p], p)
              /\ CallsAt("init", p) # {} => config[order[p]].build = "obj"
              /\ (config[order[p]].build = "raise" /\ PassOver(p)) =>
                    /\ \E k \in LogAt(p) :
                          /\ LogAt(p) = {k}
                          /\ log[k].msg = "Error during creation of object"
                          /\ log[k].sev = "error"
                          /\ log[k].comp = order[p]
                    /\ ~InsertedBy(p)
                    /\ \A t \in DOMAIN tasks : tasks[t].at # p
                    /\ HasReturned(p) => returned[p] = FALSE

\* The Registry holds the completed result of one asynchronous factory, and
\* another asynchronous factory raised and its descriptor ended Failed.
C24_Witness ==
    \E p, q \in Positions :
        /\ FactoryAt(p) /\ InsertedBy(p)
        /\ FactoryAt(q) /\ config[order[q]].build = "raise" /\ Failed(q)

\* An earlier entry of the same name was reported as added with an object.
AddedBefore(p) == \E q \in 1..(p - 1) : order[q] = order[p] /\ AddedAt(q)

(***************************************************************************)
(* C25. Duplicate rejection precedes all side effects: for a descriptor    *)
(* whose name is already in the Registry the driver performs no import,    *)
(* no argument resolution, no constructor call, no init hook and schedules *)
(* no recurring task; only the duplicate report is emitted, the entry      *)
(* stored under the name stays, and the next descriptor is processed.      *)
(***************************************************************************)
C25_DuplicateHasNoEffect ==
    \A p \in Positions :
        (AddedBefore(p) /\ PassOver(p)) =>
            /\ \A k \in DOMAIN calls : calls[k].at # p
            /\ \A t \in DOMAIN tasks : tasks[t].at # p
            /\ \E k \in LogAt(p) :
                  /\ LogAt(p) = {k}
                  /\ log[k].msg = "already added"
                  /\ log[k].comp = order[p]
            /\ ~InsertedBy(p)
            /\ HasReturned(p) => returned[p] = FALSE
            /\ WentOn(p)

\* A duplicate was rejected and the descriptor after it was registered.
C25_Witness ==
    \E p \in Positions :
        /\ AddedBefore(p) /\ Failed(p)
        /\ p < Len(order) /\ InsertedBy(p + 1)

\* The recurring tasks scheduled for entry p.
TasksAt(p) == {t \in DOMAIN tasks : tasks[t].at = p}

(***************************************************************************)
(* C26. A recurring task is scheduled for a descriptor only if that        *)
(* descriptor is inserted into the Registry in the same step; for every    *)
(* descriptor that ends Failed (a missing or raising init hook after a     *)
(* successful construction included) no recurring task is ever scheduled;  *)
(* at most one recurring task is scheduled per registered descriptor.      *)
(***************************************************************************)
C26_TaskOnlyForRegistered ==
    \A p \in Positions :
        /\ TasksAt(p) # {} =>
              /\ InsertedBy(p)
              /\ \A t \in TasksAt(p) : tasks[t].name = order[p]
              /\ config[order[p]].regular = "declared"
        /\ Cardinality(TasksAt(p)) <= 1
        /\ (Failed(p) \/ InitLacking(p) \/ HookRaised(p)) => TasksAt(p) = {}

\* One descriptor is registered with its recurring task, and one that
\* declares an existing recurring method ended Failed for its missing init
\* hook, without a task.
C26_Witness ==
    \E p, q \in Positions :
        /\ InsertedBy(p) /\ Cardinality(TasksAt(p)) = 1
        /\ Failed(q) /\ InitLacking(q)
        /\ config[order[q]].regular = "declared"
        /\ config[order[q]].regularExists
        /\ TasksAt(q) = {}

(***************************************************************************)
(* C27. A recurring hook task never runs against an unregistered instance: *)
(* there is no suspension point between scheduling the recurring task and  *)
(* inserting the instance into the Registry, so in every interleaving the  *)
(* first execution of the recurring task for component n happens in a      *)
(* state where the Registry already maps n to that instance.               *)
(***************************************************************************)
C27_TaskFindsInstance ==
    /\ \A k \in DOMAIN ran :
          ran[k].found = Inst(tasks[ran[k].task].name, tasks[ran[k].task].at)
    /\ Suspended =>
          \A t \in DOMAIN tasks :
              Lookup(tasks[t].name) = Inst(tasks[t].name, tasks[t].at)

\* A recurring task had its first execution while the driver was suspended
\* in the pause right after registering its component, and another while
\* the driver was suspended in an init hook.
C27_Witness ==
    \E j, k \in DOMAIN ran :
        /\ ran[j].pc = "sleeping" /\ ran[j].found.t = "inst"
        /\ ran[k].pc = "awaitInit" /\ ran[k].found.t = "inst"

\* Entry p of the order list has no descriptor record in the configuration.
DescriptorLacking(p) == ~config[order[p]].present

(***************************************************************************)
(* C28. An order-list entry that has no descriptor record in the           *)
(* configuration is reported as an error and skipped: registerAll does not *)
(* abort, the Registry is unchanged by that entry, and all later entries   *)
(* of the order list are still processed.                                  *)
(***************************************************************************)
C28_MissingDescriptorSkipped ==
    \A p \in Positions :
        (DescriptorLacking(p) /\ Reached(p)) =>
            /\ ~(i = p /\ pc = "raised")
            /\ order[p] \notin DOMAIN COMPONENTS
            /\ (PassOver(p) \/ Stopped) =>
                  \E k \in LogAt(p) :
                      /\ LogAt(p) = {k}
                      /\ log[k].msg = "not in component dict"
                      /\ log[k].sev = "error"
            /\ WentOn(p)

\* The name was put into the Registry at some time.
EverInserted(n) == \E p \in Positions : order[p] = n /\ AddedAt(p)

(***************************************************************************)
(* C29. The Registry never maps a name to an absent (None) instance: in    *)
(* every reachable state each Registry entry holds a non-absent instance,  *)
(* so a lookup returns absent exactly for the names that were never        *)
(* inserted.                                                               *)
(***************************************************************************)
C29_NoAbsentEntry ==
    /\ \A n \in DOMAIN COMPONENTS : COMPONENTS[n] # None
    /\ \A n \in Names : Lookup(n) = None <=> ~EverInserted(n)

\* A service was added with success and a lookup of its name returns absent,
\* while another name is registered.
C29_Witness ==
    \E p, q \in Positions :
        /\ ServiceAt(p) /\ Registered(p) /\ Lookup(order[p]) = None
        /\ InsertedBy(q)

\* Number of insertions made under the name n (each is reported as added).
Insertions(n) == Reports("Added component", n)

\* Between its duplicate test and its insertion, a pass for this descriptor
\* awaits: an asynchronous factory, an awaited init hook, or the report of a
\* missing recurring method.
AwaitsBeforeInsertion(desc) ==
    \/ desc.symbol = "async"
    \/ desc.init = "declared" /\ desc.initExists
          /\ desc.initKind \in {"coro", "asyncfn"}
    \/ desc.regular = "declared" /\ ~desc.regularExists

(***************************************************************************)
(* C30. Duplicate check and insertion under interleaving: if two driver    *)
(* tasks process descriptors with the same name and interleave at the      *)
(* suspension points between the duplicate check and the Registry          *)
(* insertion, at most one of them inserts into the Registry and an         *)
(* existing entry is never overwritten.                                    *)
(***************************************************************************)
C30_AtMostOneInserts == \A n \in Names : Insertions(n) <= 1

(***************************************************************************)
(* C30 amended. With two driver tasks, a pass that makes its duplicate     *)
(* check when the name is in the Registry is rejected and goes no further; *)
(* but when both tasks pass the check before either has inserted, which    *)
(* can happen only for a descriptor with a suspension point between check  *)
(* and insertion, both insert and the later insertion overwrites the       *)
(* earlier entry: there are at most two insertions under one name.         *)
(***************************************************************************)
C30_RaceOnlyAcrossAwait ==
    /\ \A k \in DOMAIN calls :
          calls[k].op \in {"import", "construct"} =>
              calls[k].name \notin calls[k].reg
    /\ \A n \in Names :
          /\ Insertions(n) <= 2
          /\ Insertions(n) = 2 => AwaitsBeforeInsertion(config[n])
          /\ Insertions(n) >= 1 <=> n \in DOMAIN COMPONENTS

\* Both driver tasks inserted under the same name, and a third pass for that
\* name was rejected as a duplicate.
C30_Witness ==
    \E n \in Names :
        /\ Insertions(n) = 2
        /\ Reports("already added", n) = 1

====
